---- MODULE Spec2Model ----
(***************************************************************************)
(* Model of the Ice-RAG chat backend (src/index.js and its near-duplicate  *)
(* src/unnamed/part_000): one process-wide vectorStore reference, the      *)
(* startup ingestion started by the app.listen callback, and NReq          *)
(* concurrent POST /api/chat handlers.  Every await of the source is a     *)
(* suspension point: the step that issues an external call and the step    *)
(* that resumes on its outcome are separate actions, so handlers and       *)
(* ingestions interleave exactly at the awaits.                            *)
(*                                                                         *)
(* External services (PDF loader, splitter, embedding service, vector      *)
(* search, completion service) are the environment: each call either       *)
(* resolves or rejects, chosen nondeterministically.  A resolved completion*)
(* carries a string content; res.json / res.status().json do not throw     *)
(* (their bodies are plain strings).  express.json() leaves req.body an    *)
(* object, so the destructuring on the first line of the handler succeeds. *)
(***************************************************************************)
EXTENDS Integers, Sequences, FiniteSets, TLC

\* ----------------------------------------------------------------- bounds
NReq == 2        \* concurrent POST /api/chat requests
NChunks == 2     \* chunks the splitter produces from faqs.pdf

\* ------------------------------------------------------ program constants
TopK == 2        \* similaritySearch(message, 2)

Reqs == 1..NReq
Startup == 0                      \* owner id of the app.listen ingestion
Owners == {Startup} \cup Reqs     \* one initializePDF activation per owner

NULL == <<>>                      \* let vectorStore = null
Index(o, n) == <<o, n>>           \* the store built by owner o over n chunks
SizeOf(vs) == IF vs = NULL THEN -1 ELSE vs[2]   \* chunks held, -1 for null

\* req.body.message: absent, "", or a non-empty string
Messages ==
  { <<"undefined">>, <<"string", "">>,
    <<"string", "What temperature should ice be stored at?">> }

SourcePDF == "PDF Knowledge Base"
SourceGeneral == "OpenAI General Response"
NoSource == "<absent>"
NoError == "<absent>"

\* ------------------------------------------------------------ text helpers
\* String.prototype.toLowerCase on the characters the replies use
ToLowerChar(c) ==
  CASE c = "T" -> "t" [] c = "R" -> "r" [] c = "U" -> "u" [] c = "E" -> "e"
    [] c = "F" -> "f" [] c = "A" -> "a" [] c = "L" -> "l" [] c = "S" -> "s"
    [] c = "Y" -> "y" [] c = "N" -> "n" [] c = "O" -> "o"
    [] OTHER -> c

toLowerCase(s) == [i \in 1..Len(s) |-> ToLowerChar(s[i])]

\* String.prototype.includes
includes(s, sub) ==
  \E i \in 1..(Len(s) - Len(sub) + 1) : SubSeq(s, i, i + Len(sub) - 1) = sub

StrTrue == <<"t", "r", "u", "e">>

\* replies the relevance completion may carry
Replies ==
  { <<"t", "r", "u", "e">>,
    <<"T", "r", "u", "e", ".">>,
    <<"f", "a", "l", "s", "e">>,
    <<"y", "e", "s">>,
    <<>> }

\* ------------------------------------------------------------------- state
VARIABLES
  listening,    \* the app.listen callback has run
  vectorStore,  \* the module-level `let vectorStore`
  ipc,          \* ipc[o]: position of owner o's initializePDF activation
  lastInstall,  \* history: the owner whose assignment ran last, -1 = none
  pc,           \* pc[r]: position of request r's handler
  message,      \* message[r]: req.body.message
  observed,     \* observed[r]: chunks in the store read by `if (vectorStore)`,
                \*   -1 when it read null or has not read it
  relOutcome,   \* relOutcome[r]: how isRelevantPDFContent reached its value
  isRelevant,   \* isRelevant[r]: "unset", "true" or "false"
  calls,        \* calls[r]: external calls the request issued, in order
  caught,       \* caught[r]: the call whose failure reached the handler's catch
  sent,         \* sent[r]: responses written for request r, in order
  text,         \* the argument formatLinksAsHTML is applied to
  html,         \* successive results of formatLinksAsHTML on text
  cls           \* one isRelevantPDFContent activation taken on its own

vars == <<listening, vectorStore, ipc, lastInstall, pc, message,
          observed, relOutcome, isRelevant, calls, caught, sent,
          text, html, cls>>

fnVars == <<text, html, cls>>

procVars == <<listening, vectorStore, ipc, lastInstall>>

reqVars == <<pc, message, observed, relOutcome, isRelevant,
             calls, caught, sent>>

\* the server after module evaluation, before the listen callback
ServerInit ==
  /\ listening = FALSE
  /\ vectorStore = NULL
  /\ ipc = [o \in Owners |-> "idle"]
  /\ lastInstall = -1
  /\ pc = [r \in Reqs |-> "idle"]
  /\ message = [r \in Reqs |-> <<"undefined">>]
  /\ observed = [r \in Reqs |-> -1]
  /\ relOutcome = [r \in Reqs |-> "none"]
  /\ isRelevant = [r \in Reqs |-> "unset"]
  /\ calls = [r \in Reqs |-> <<>>]
  /\ caught = [r \in Reqs |-> "none"]
  /\ sent = [r \in Reqs |-> <<>>]

\* no function is being looked at on its own
FnIdle ==
  /\ text = <<>>
  /\ html = <<>>
  /\ cls = [pc |-> "idle"]

Init == ServerInit /\ FnIdle

\* --------------------------------------------------------------- responses
Response(status, error, source) ==
  [status |-> status, error |-> error, source |-> source]

BadRequest == Response(400, "Message is required", NoSource)
\* res.json of the grounded branch
GroundedResponse == Response(200, NoError, SourcePDF)
\* variant: the fallback branch relays a body without its source field
FallbackResponse_NoSource == Response(200, NoError, NoSource)

\* getOpenAIResponse's result, relayed by res.json of the fallback branch
FallbackResponse == Response(200, NoError, SourceGeneral)
\* variant: the catch block details the failure to the caller
CatchResponse_Detailed == Response(500, "<error.message>", NoSource)

\* the handler's catch block
CatchResponse == Response(500, "Internal server error", NoSource)

\* ------------------------------------------------------- handler predicates
\* variant: only an absent message is rejected (`message === undefined`)
IsFalsy_OnlyUndefined(m) == m = <<"undefined">>

\* `!message`
IsFalsy(m) ==
  m \in { <<"undefined">>, <<"null">>, <<"string", "">>, <<"number", "0">>,
          <<"boolean", "false">> }

\* variant: a failed ingestion is remembered and not attempted again
NeedsInit_FailureCached(vs) ==
  vs = NULL /\ \A o \in Owners : ipc[o] # "false"

\* `if (!vectorStore)`
NeedsInit(vs) == vs = NULL

\* variant: the retrieval branch is taken without the re-check
StoreReady_Unchecked(vs) == TRUE

\* variant: the retrieval branch is skipped once an ingestion has failed
StoreReady_UnlessFailed(vs) ==
  vs # NULL /\ \A o \in Owners : ipc[o] # "false"

\* `if (vectorStore)`
StoreReady(vs) == vs # NULL

\* variant: only `!results` is tested, an empty array goes on to the call
NoResults_NullOnly(n) == n < 0

\* `if (!results || results.length === 0) return false`; n is the length of
\* results, -1 when results is null or undefined
NoResults(n) == n <= 0

\* variant: the reply is searched without being lower-cased
RelevanceOf_CaseSensitive(reply) == includes(reply, StrTrue)

\* `response.choices[0].message.content.toLowerCase().includes('true')`
RelevanceOf(reply) == includes(toLowerCase(reply), StrTrue)

\* variant: the classifier's catch block answers true
RelevanceOnError_True == TRUE

\* the classifier's catch block: `return false`
RelevanceOnError == FALSE

\* variant: the grounded branch is taken whatever the classifier said
TakeGrounded_Always(rel) == TRUE

\* `if (isRelevant)`
TakeGrounded(rel) == rel = "true"

\* variant: `res.json(...)` without `return`, falling through to the fallback
GroundedReturns_FallThrough == FALSE

\* `return res.json(...)` in the grounded branch leaves the handler
GroundedReturns == TRUE

\* variant: the assignment keeps an index that is already installed
AssignStore_FirstWins(vs, idx) == IF vs = NULL THEN idx ELSE vs

\* `vectorStore = await MemoryVectorStore.fromDocuments(...)`
AssignStore(vs, idx) == idx

\* variant: the catch block resets the reference
StoreOnFailure_Reset(vs) == NULL

\* initializePDF's catch block does not touch vectorStore
StoreOnFailure(vs) == vs

BoolStr(b) == IF b THEN "true" ELSE "false"

\* -------------------------------------------------------------- ingestion
\* initializePDF up to its first await: `await loader.load()`
StartIngestion(o) == ipc' = [ipc EXCEPT ![o] = "load"]

\* initializePDF's catch: log, return false
IngestionFails(o) ==
  /\ ipc' = [ipc EXCEPT ![o] = "false"]
  /\ vectorStore' = StoreOnFailure(vectorStore)
  /\ UNCHANGED lastInstall

\* app.listen callback: log, then initializePDF() without await
Listen ==
  /\ ~listening
  /\ listening' = TRUE
  /\ StartIngestion(Startup)
  /\ UNCHANGED <<vectorStore, lastInstall, reqVars>>
  /\ UNCHANGED fnVars

\* loader.load() settles
LoadReturn(o, ok) ==
  /\ ipc[o] = "load"
  /\ IF ok
       THEN /\ ipc' = [ipc EXCEPT ![o] = "split"]
            /\ UNCHANGED <<vectorStore, lastInstall>>
       ELSE IngestionFails(o)
  /\ UNCHANGED <<listening, reqVars>>
  /\ UNCHANGED fnVars

\* splitter.splitDocuments() settles; fromDocuments is called on success
SplitReturn(o, ok) ==
  /\ ipc[o] = "split"
  /\ IF ok
       THEN /\ ipc' = [ipc EXCEPT ![o] = "embed"]
            /\ UNCHANGED <<vectorStore, lastInstall>>
       ELSE IngestionFails(o)
  /\ UNCHANGED <<listening, reqVars>>
  /\ UNCHANGED fnVars

\* variant: the store is installed with the chunks embedded so far
EmbedReturn_Partial(o, k) ==
  /\ ipc[o] = "embed"
  /\ IF k >= 1
       THEN /\ vectorStore' = Index(o, k)
            /\ lastInstall' = o
            /\ ipc' = [ipc EXCEPT ![o] = "true"]
       ELSE /\ ipc' = [ipc EXCEPT ![o] = "false"]
            /\ UNCHANGED <<vectorStore, lastInstall>>
  /\ UNCHANGED <<listening, reqVars>>
  /\ UNCHANGED fnVars

\* MemoryVectorStore.fromDocuments settles after embedding k of the NChunks
\* chunks: it resolves with the store when every chunk was embedded (the
\* assignment runs, log, return true) and rejects when an embedding failed
EmbedReturn(o, k) ==
  /\ ipc[o] = "embed"
  /\ IF k = NChunks
       THEN /\ vectorStore' = AssignStore(vectorStore, Index(o, k))
            /\ lastInstall' = o
            /\ ipc' = [ipc EXCEPT ![o] = "true"]
       ELSE IngestionFails(o)
  /\ UNCHANGED <<listening, reqVars>>
  /\ UNCHANGED fnVars

\* ------------------------------------------------------------ the handler
Send(r, resp) == sent' = [sent EXCEPT ![r] = Append(@, resp)]

Call(r, what) == calls' = [calls EXCEPT ![r] = Append(@, what)]

\* variant: the catch block logs the error and sends nothing
Catch_LogOnly(r, what) ==
  /\ caught' = [caught EXCEPT ![r] = what]
  /\ pc' = [pc EXCEPT ![r] = "done"]
  /\ UNCHANGED sent

\* a rejection reaches the handler's catch: log, res.status(500).json
Catch(r, what) ==
  /\ caught' = [caught EXCEPT ![r] = what]
  /\ Send(r, CatchResponse)
  /\ pc' = [pc EXCEPT ![r] = "done"]

\* `if (vectorStore)` and what follows it up to the next await
Recheck(r) ==
  /\ observed' = [observed EXCEPT ![r] = SizeOf(vectorStore)]
  /\ IF StoreReady(vectorStore)
       THEN /\ Call(r, "search")
            /\ pc' = [pc EXCEPT ![r] = "awaitSearch"]
       ELSE /\ Call(r, "general")
            /\ pc' = [pc EXCEPT ![r] = "awaitGeneral"]

\* a request arrives: the handler runs to its first await or to its 400
Receive(r, m) ==
  /\ listening
  /\ pc[r] = "idle"
  /\ message' = [message EXCEPT ![r] = m]
  /\ IF IsFalsy(m)
       THEN /\ Send(r, BadRequest)
            /\ pc' = [pc EXCEPT ![r] = "done"]
            /\ UNCHANGED <<ipc, observed, calls>>
       ELSE IF NeedsInit(vectorStore)
         THEN /\ StartIngestion(r)
              /\ Call(r, "ingest")
              /\ pc' = [pc EXCEPT ![r] = "awaitInit"]
              /\ UNCHANGED <<observed, sent>>
         ELSE /\ Recheck(r)
              /\ UNCHANGED <<ipc, sent>>
  /\ UNCHANGED <<listening, vectorStore, lastInstall, relOutcome,
                 isRelevant, caught>>
  /\ UNCHANGED fnVars

\* variant: every request awaits one shared ingestion, the startup one
InitSettled_Shared(r) == ipc[Startup] \in {"true", "false"}

\* the promise of the request's own initializePDF() call has settled
InitSettled(r) == ipc[r] \in {"true", "false"}

\* `await initializePDF()` resumes; its boolean result is discarded
ResumeAfterInit(r) ==
  /\ pc[r] = "awaitInit"
  /\ InitSettled(r)
  /\ Recheck(r)
  /\ UNCHANGED <<procVars, message,
                 relOutcome, isRelevant, caught, sent>>
  /\ UNCHANGED fnVars

\* vectorStore.similaritySearch settles; isRelevantPDFContent starts
SearchReturn(r, ok, n) ==
  /\ pc[r] = "awaitSearch"
  /\ IF ~ok
       THEN /\ Catch(r, "search")
            /\ UNCHANGED <<relOutcome, isRelevant, calls>>
       ELSE /\ IF NoResults(n)
                 THEN /\ relOutcome' = [relOutcome EXCEPT ![r] = "empty"]
                      /\ isRelevant' = [isRelevant EXCEPT ![r] = "false"]
                      /\ IF TakeGrounded("false")
                           THEN /\ Call(r, "grounded")
                                /\ pc' = [pc EXCEPT ![r] = "awaitGrounded"]
                           ELSE /\ Call(r, "general")
                                /\ pc' = [pc EXCEPT ![r] = "awaitGeneral"]
                 ELSE /\ Call(r, "relevance")
                      /\ pc' = [pc EXCEPT ![r] = "awaitRelevance"]
                      /\ UNCHANGED <<relOutcome, isRelevant>>
            /\ UNCHANGED <<caught, sent>>
  /\ UNCHANGED <<procVars, message, observed>>
  /\ UNCHANGED fnVars

\* the classifier's completion settles; the handler branches on isRelevant
RelevanceReturn(r, ok, reply) ==
  /\ pc[r] = "awaitRelevance"
  /\ LET rel == IF ok THEN RelevanceOf(reply) ELSE RelevanceOnError
     IN  /\ relOutcome' = [relOutcome EXCEPT ![r] =
                             IF ok THEN "replied" ELSE "failed"]
         /\ isRelevant' = [isRelevant EXCEPT ![r] = BoolStr(rel)]
         /\ IF TakeGrounded(BoolStr(rel))
              THEN /\ Call(r, "grounded")
                   /\ pc' = [pc EXCEPT ![r] = "awaitGrounded"]
              ELSE /\ Call(r, "general")
                   /\ pc' = [pc EXCEPT ![r] = "awaitGeneral"]
  /\ UNCHANGED <<procVars, message, observed,
                 caught, sent>>
  /\ UNCHANGED fnVars

\* the grounded completion settles
GroundedReturn(r, ok) ==
  /\ pc[r] = "awaitGrounded"
  /\ IF ~ok
       THEN /\ Catch(r, "grounded")
            /\ UNCHANGED calls
       ELSE /\ Send(r, GroundedResponse)
            /\ IF GroundedReturns
                 THEN /\ pc' = [pc EXCEPT ![r] = "done"]
                      /\ UNCHANGED calls
                 ELSE /\ Call(r, "general")
                      /\ pc' = [pc EXCEPT ![r] = "awaitGeneral"]
            /\ UNCHANGED caught
  /\ UNCHANGED <<procVars, message, observed,
                 relOutcome, isRelevant>>
  /\ UNCHANGED fnVars

\* getOpenAIResponse's completion settles: rethrow, or relay its result
GeneralReturn(r, ok) ==
  /\ pc[r] = "awaitGeneral"
  /\ IF ~ok
       THEN Catch(r, "general")
       ELSE /\ Send(r, FallbackResponse)
            /\ pc' = [pc EXCEPT ![r] = "done"]
            /\ UNCHANGED caught
  /\ UNCHANGED <<procVars, message, observed,
                 relOutcome, isRelevant, calls>>
  /\ UNCHANGED fnVars

\* ------------------------------------------------------------ specification
Next ==
  \/ Listen
  \/ \E r \in Reqs, m \in Messages : Receive(r, m)
  \/ \E o \in Owners, ok \in BOOLEAN : LoadReturn(o, ok)
  \/ \E o \in Owners, ok \in BOOLEAN : SplitReturn(o, ok)
  \/ \E o \in Owners, k \in 0..NChunks : EmbedReturn(o, k)
  \/ \E r \in Reqs : ResumeAfterInit(r)
  \/ \E r \in Reqs : SearchReturn(r, FALSE, 0)
  \/ \E r \in Reqs, n \in 0..(IF TopK < NChunks THEN TopK ELSE NChunks) :
       SearchReturn(r, TRUE, n)
  \/ \E r \in Reqs : RelevanceReturn(r, FALSE, <<>>)
  \/ \E r \in Reqs, reply \in Replies : RelevanceReturn(r, TRUE, reply)
  \/ \E r \in Reqs, ok \in BOOLEAN : GroundedReturn(r, ok)
  \/ \E r \in Reqs, ok \in BOOLEAN : GeneralReturn(r, ok)

Spec == Init /\ [][Next]_vars

\* ------------------------------------------------------------- scheduling
\* an external call of owner o's initializePDF settles and the task resumes
IngestionStep(o) ==
  \/ \E ok \in BOOLEAN : LoadReturn(o, ok)
  \/ \E ok \in BOOLEAN : SplitReturn(o, ok)
  \/ \E k \in 0..NChunks : EmbedReturn(o, k)

\* an external call awaited by request r settles and its handler resumes
RequestStep(r) ==
  \/ IngestionStep(r)
  \/ ResumeAfterInit(r)
  \/ SearchReturn(r, FALSE, 0)
  \/ \E n \in 0..(IF TopK < NChunks THEN TopK ELSE NChunks) :
       SearchReturn(r, TRUE, n)
  \/ RelevanceReturn(r, FALSE, <<>>)
  \/ \E reply \in Replies : RelevanceReturn(r, TRUE, reply)
  \/ \E ok \in BOOLEAN : GroundedReturn(r, ok)
  \/ \E ok \in BOOLEAN : GeneralReturn(r, ok)

\* every external call settles and the event loop resumes its awaiter
SpecLive ==
  /\ Init /\ [][Next]_vars
  /\ WF_vars(IngestionStep(Startup))
  /\ \A r \in Reqs : WF_vars(RequestStep(r))

\* the tasks whose external calls may never settle: the startup ingestion
\* and the last request
Hung == {Startup, NReq}

\* the calls of the tasks in Hung may stay pending for ever; the calls of
\* every other request settle
SpecHung ==
  /\ Init /\ [][Next]_vars
  /\ \A r \in Reqs \ Hung : WF_vars(RequestStep(r))

\* ------------------------------------------------------- formatLinksAsHTML
MaxParts == 4    \* pieces a text under formatLinksAsHTML is made of

HttpScheme == <<"h", "t", "t", "p", ":", "/", "/">>
HttpsScheme == <<"h", "t", "t", "p", "s", ":", "/", "/">>

\* the template literal around ${url}
AnchorOpen == <<"<", "a", " ", "h", "r", "e", "f", "=", "\"">>
AnchorMid ==
  <<"\"", " ", "t", "a", "r", "g", "e", "t", "=", "\"", "_", "b", "l", "a", "n", "k", "\"", ">">>
AnchorClose == <<"<", "/", "a", ">">>

\* variant: the class `[^ ]`, which lets a line break into the URL
IsWhitespace_BlankOnly(c) == c = " "

\* the characters `\s` matches, among those the texts use
IsWhitespace(c) == c \in {" ", "\n"}

HasPrefixAt(t, i, p) ==
  /\ i + Len(p) - 1 <= Len(t)
  /\ SubSeq(t, i, i + Len(p) - 1) = p

\* characters `https?:\/\/` consumes at position i, 0 when it does not match
SchemeLenAt(t, i) ==
  IF HasPrefixAt(t, i, HttpsScheme) THEN Len(HttpsScheme)
  ELSE IF HasPrefixAt(t, i, HttpScheme) THEN Len(HttpScheme)
  ELSE 0

\* last position of the greedy `[^\s]+` run that starts at j, j-1 when empty
RunEnd(t, j) ==
  CHOOSE k \in (j - 1)..Len(t) :
    /\ \A x \in j..k : ~IsWhitespace(t[x])
    /\ k = Len(t) \/ IsWhitespace(t[k + 1])

\* last position of a match of urlRegex that starts at i, 0 when none does
MatchEnd(t, i) ==
  LET n == SchemeLenAt(t, i)
  IN  IF n = 0 THEN 0
      ELSE LET k == RunEnd(t, i + n)
           IN  IF k >= i + n THEN k ELSE 0

\* the replacer: (url) => `<a href="${url}" target="_blank">${url}</a>`
Anchor(url) == AnchorOpen \o url \o AnchorMid \o url \o AnchorClose

\* String.prototype.replace with a global regex, scanning from position i
RECURSIVE ReplaceFrom(_, _)
ReplaceFrom(t, i) ==
  IF i > Len(t) THEN <<>>
  ELSE LET e == MatchEnd(t, i)
       IN  IF e > 0
             THEN Anchor(SubSeq(t, i, e)) \o ReplaceFrom(t, e + 1)
             ELSE <<t[i]>> \o ReplaceFrom(t, i + 1)

formatLinksAsHTML(t) == ReplaceFrom(t, 1)

\* pieces the completion's content is put together from
Pieces ==
  { HttpScheme, HttpsScheme, <<"a", ".", "i", "o", "/", "x">>,
    <<"S", "e", "e">>, <<" ">>, <<"\n">> }

RECURSIVE Flatten(_)
Flatten(ps) == IF ps = <<>> THEN <<>> ELSE Head(ps) \o Flatten(Tail(ps))

\* the contents of at most max pieces
Texts(max) ==
  UNION { {Flatten(ps) : ps \in [1..n -> Pieces]} : n \in 0..max }

\* formatLinksAsHTML is looked at on its own: some content arrives
FormatInit ==
  /\ ServerInit
  /\ text \in Texts(MaxParts)
  /\ html = <<>>
  /\ cls = [pc |-> "idle"]

\* getOpenAIResponse / the grounded branch format the content
Format ==
  /\ html = <<>>
  /\ html' = <<formatLinksAsHTML(text)>>
  /\ UNCHANGED <<procVars, reqVars, text, cls>>

\* the formatted message is formatted once more
Reformat ==
  /\ Len(html) = 1
  /\ html' = Append(html, formatLinksAsHTML(html[1]))
  /\ UNCHANGED <<procVars, reqVars, text, cls>>

FormatNext == Format \/ Reformat

SpecFormat == FormatInit /\ [][FormatNext]_vars

\* ---------------------------------------------------- isRelevantPDFContent
\* values the `results` argument can take: null, undefined, or an array of
\* up to TopK retrieved chunks
ResultValues ==
  { <<"null">>, <<"undefined">> } \cup { <<"array", n>> : n \in 0..TopK }

LengthOf(v) == IF v[1] = "array" THEN v[2] ELSE -1

\* pieces the classifier's reply is put together from
ReplyPieces ==
  { <<"t", "r", "u", "e">>, <<"T", "R", "U", "E">>,
    <<"f", "a", "l", "s", "e">>, <<"y", "e", "s">>,
    <<"n", "o", "t", " ">>, <<"T", "r">>, <<"u", "E", ".">> }

\* the replies of at most max pieces
ReplyTexts(max) ==
  UNION { {Flatten(ps) : ps \in [1..n -> ReplyPieces]} : n \in 0..max }

Activation(p, v, n, how, reply, value) ==
  [pc |-> p, results |-> v, completions |-> n, outcome |-> how,
   reply |-> reply, value |-> value]

\* isRelevantPDFContent is looked at on its own: it has just been called
ClassifierInit ==
  /\ ServerInit
  /\ text = <<>>
  /\ html = <<>>
  /\ cls \in {Activation("called", v, 0, "none", <<>>, FALSE) :
                v \in ResultValues}

\* the guard, then the completion call up to its await
ClassifierEnter ==
  /\ cls.pc = "called"
  /\ cls' = IF NoResults(LengthOf(cls.results))
              THEN Activation("returned", cls.results, 0, "empty", <<>>, FALSE)
              ELSE Activation("await", cls.results, 1, "none", <<>>, FALSE)
  /\ UNCHANGED <<procVars, reqVars, text, html>>

\* the completion settles: the reply is tested, or the catch returns false
ClassifierSettle(ok, reply) ==
  /\ cls.pc = "await"
  /\ cls' = IF ok
              THEN Activation("returned", cls.results, cls.completions,
                              "replied", reply, RelevanceOf(reply))
              ELSE Activation("returned", cls.results, cls.completions,
                              "failed", <<>>, RelevanceOnError)
  /\ UNCHANGED <<procVars, reqVars, text, html>>

ClassifierNext ==
  \/ ClassifierEnter
  \/ cls.pc = "await" /\ \E reply \in ReplyTexts(MaxParts) :
       ClassifierSettle(TRUE, reply)
  \/ ClassifierSettle(FALSE, <<>>)

SpecClassifier == ClassifierInit /\ [][ClassifierNext]_vars

\* ------------------------------------------------------------------ claims
\* what a claim calls a missing or empty message
MissingOrEmpty(m) == m[1] \in {"undefined", "null"} \/ m = <<"string", "">>

Answered(r) == pc[r] = "done"
SourcesOf(r) == {sent[r][i].source : i \in 1..Len(sent[r])} \ {NoSource}
Grounded(r) == \E i \in 1..Len(sent[r]) : sent[r][i].source = SourcePDF
Issued(r, what) == \E i \in 1..Len(calls[r]) : calls[r][i] = what
TimesIssued(r, what) == Len(SelectSeq(calls[r], LAMBDA c : c = what))
Rechecked(r) == pc[r] \notin {"idle", "awaitInit"} /\ ~MissingOrEmpty(message[r])

\* C1 as stated: every answered request with a non-empty message carries
\* exactly one of the two source values, whatever the outcomes of its calls.
C1_ExactlyOneSourceAlways ==
  \A r \in Reqs :
    (Answered(r) /\ ~MissingOrEmpty(message[r]))
      => Cardinality(SourcesOf(r)) = 1

\* C1 amended: an answered request with a non-empty message carries exactly
\* one of the two source values when none of its calls failed into the
\* handler's catch, and otherwise a 500 that carries no source; never both.
C1_OneSourceOrServerError ==
  \A r \in Reqs :
    /\ Cardinality(SourcesOf(r)) <= 1
    /\ (Answered(r) /\ ~MissingOrEmpty(message[r])) =>
         IF caught[r] = "none"
           THEN /\ Cardinality(SourcesOf(r)) = 1
                /\ SourcesOf(r) \subseteq {SourcePDF, SourceGeneral}
                /\ \A i \in 1..Len(sent[r]) : sent[r][i].status = 200
           ELSE /\ SourcesOf(r) = {}
                /\ sent[r] = <<Response(500, "Internal server error", NoSource)>>

C1_Witness ==
  \E r, q \in Reqs :
    /\ Answered(r) /\ SourcesOf(r) = {SourceGeneral} /\ caught[r] = "none"
    /\ Answered(q) /\ SourcesOf(q) = {} /\ caught[q] = "general"

\* C2: a request whose message is missing or empty is answered 400
\* {error: 'Message is required'} in the step that receives it; that step
\* starts no ingestion, issues no call and leaves vectorStore unchanged, and
\* the request does nothing afterwards.
C2_EmptyMessageRejected ==
  /\ [](\A r \in Reqs :
          (pc[r] # "idle" /\ MissingOrEmpty(message[r])) =>
            /\ pc[r] = "done"
            /\ sent[r] = <<Response(400, "Message is required", NoSource)>>
            /\ calls[r] = <<>>
            /\ ipc[r] = "idle")
  /\ [][\A r \in Reqs :
          (pc[r] = "idle" /\ pc'[r] # "idle" /\ MissingOrEmpty(message'[r])) =>
            /\ vectorStore' = vectorStore
            /\ ipc' = ipc
            /\ calls' = calls]_vars

C2_Witness ==
  \E r, q \in Reqs :
    /\ message[r] = <<"string", "">>
    /\ sent[r] = <<Response(400, "Message is required", NoSource)>>
    /\ pc[q] = "awaitInit"
    /\ vectorStore # NULL

\* C3: a request for which isRelevantPDFContent returned false never sends
\* 'PDF Knowledge Base'; a 'PDF Knowledge Base' response comes only from a
\* request that read a non-null vectorStore and whose classifier said true.
C3_NotRelevantNeverGrounded ==
  \A r \in Reqs :
    /\ isRelevant[r] = "false" => ~Grounded(r)
    /\ relOutcome[r] \in {"empty", "failed"} => ~Grounded(r)
    /\ Grounded(r) =>
         /\ observed[r] >= 0
         /\ isRelevant[r] = "true"
         /\ relOutcome[r] = "replied"

C3_Witness ==
  \E r, q \in Reqs :
    /\ relOutcome[r] = "empty" /\ SourcesOf(r) = {SourceGeneral}
    /\ relOutcome[q] = "replied" /\ isRelevant[q] = "false"
    /\ SourcesOf(q) = {SourceGeneral}

\* C4: no request is answered twice: a request in progress has sent
\* nothing, and an answered request has sent exactly one body, on the 400,
\* grounded, fallback and 500 paths alike.
C4_ExactlyOneBody ==
  \A r \in Reqs :
    /\ Len(sent[r]) <= 1
    /\ Answered(r) <=> Len(sent[r]) = 1

C4_Witness ==
  \E r, q \in Reqs :
    /\ Answered(r) /\ caught[r] = "grounded" /\ Len(sent[r]) = 1
    /\ Answered(q) /\ SourcesOf(q) = {SourcePDF} /\ Len(sent[q]) = 1

\* C5: a failed similarity search, grounded completion or general completion
\* ends the request with 500 {error: 'Internal server error'}: the failed
\* call was issued once, nothing is issued after it, and the other answer
\* mode is not tried.
C5_UncaughtFailureIs500 ==
  \A r \in Reqs :
    caught[r] # "none" =>
      /\ Answered(r)
      /\ sent[r] = <<Response(500, "Internal server error", NoSource)>>
      /\ calls[r][Len(calls[r])] = caught[r]
      /\ TimesIssued(r, caught[r]) = 1
      /\ ~(Issued(r, "grounded") /\ Issued(r, "general"))
      /\ caught[r] = "search" =>
           ~Issued(r, "grounded") /\ ~Issued(r, "general")

C5_Witness ==
  \E r, q \in Reqs :
    /\ caught[r] = "search" /\ Answered(r)
    /\ caught[q] = "general" /\ Answered(q) /\ Issued(q, "relevance")

\* C6: when the classifier's completion fails, isRelevantPDFContent returns
\* false and the request goes on in general mode: it is answered 200
\* 'OpenAI General Response' when the general completion succeeds and 500
\* only when that completion fails.
C6_ClassifierFailureFallsBack ==
  \A r \in Reqs :
    relOutcome[r] = "failed" =>
      /\ isRelevant[r] = "false"
      /\ pc[r] \in {"awaitGeneral", "done"}
      /\ Issued(r, "general") /\ ~Issued(r, "grounded")
      /\ caught[r] \in {"none", "general"}
      /\ Answered(r) =>
           sent[r] = IF caught[r] = "general"
                       THEN <<Response(500, "Internal server error", NoSource)>>
                       ELSE <<Response(200, NoError, SourceGeneral)>>

C6_Witness ==
  \E r \in Reqs :
    /\ relOutcome[r] = "failed"
    /\ sent[r] = <<Response(200, NoError, SourceGeneral)>>

\* C7: a request whose own ingestion failed and that read vectorStore null
\* at the re-check issues no similarity search and no relevance call; it
\* runs general mode and is answered with 'OpenAI General Response' (500
\* only when the general completion itself fails).
C7_FailedIngestionFallsBack ==
  \A r \in Reqs :
    (ipc[r] = "false" /\ Rechecked(r) /\ observed[r] = -1) =>
      /\ calls[r] = <<"ingest", "general">>
      /\ relOutcome[r] = "none" /\ isRelevant[r] = "unset"
      /\ caught[r] \in {"none", "general"}
      /\ Answered(r) =>
           sent[r] = IF caught[r] = "general"
                       THEN <<Response(500, "Internal server error", NoSource)>>
                       ELSE <<Response(200, NoError, SourceGeneral)>>

C7_Witness ==
  \E r \in Reqs :
    /\ ipc[r] = "false" /\ observed[r] = -1 /\ vectorStore = NULL
    /\ sent[r] = <<Response(200, NoError, SourceGeneral)>>

\* C8: an ingestion that fails while vectorStore is null leaves it null,
\* and the failure is not remembered: every request with a non-empty message
\* received while vectorStore is null starts its own ingestion, however many
\* ingestions have failed before.
C8_FailureNotCached ==
  [][/\ \A o \in Owners :
          (ipc[o] # "false" /\ ipc'[o] = "false" /\ vectorStore = NULL)
            => vectorStore' = NULL
     /\ \A r \in Reqs :
          (/\ pc[r] = "idle" /\ pc'[r] # "idle"
           /\ ~MissingOrEmpty(message'[r])
           /\ vectorStore = NULL)
            => (pc'[r] = "awaitInit" /\ ipc[r] = "idle" /\ ipc'[r] = "load")
    ]_vars

C8_Witness ==
  \E r, q \in Reqs :
    /\ vectorStore = NULL
    /\ ipc[Startup] = "false"
    /\ ipc[q] = "false" /\ Answered(q) /\ calls[q][1] = "ingest"
    /\ pc[r] = "awaitInit" /\ ipc[r] = "load"

\* C9 as stated: once vectorStore holds an index, no later step assigns it
\* again.
C9_AssignedOnce ==
  [][vectorStore # NULL => vectorStore' = vectorStore]_vars

\* C9 amended: once vectorStore holds an index it never becomes null again
\* and no ingestion is started after that; it is assigned again only by an
\* ingestion that was already running, with the complete index it built.
C9_NeverUninitializedAgain ==
  [][/\ vectorStore # NULL => vectorStore' # NULL
     /\ \A o \in Owners :
          (vectorStore # NULL /\ ipc[o] = "idle") => ipc'[o] = "idle"
     /\ vectorStore' # vectorStore =>
          \E o \in Owners :
            /\ ipc[o] = "embed" /\ ipc'[o] = "true"
            /\ vectorStore' = <<o, NChunks>>
    ]_vars

C9_Witness ==
  /\ Cardinality({o \in Owners : ipc[o] = "true"}) >= 2
  /\ lastInstall = Startup
  /\ \E r \in Reqs : pc[r] = "awaitSearch" /\ ipc[r] = "idle"

\* C10: requests (and the startup ingestion) that read vectorStore null each
\* run their own ingestion; vectorStore always holds the index of the
\* ingestion whose assignment ran last, and a request whose own ingestion
\* succeeded goes on with a non-null, complete index on the retrieval path.
C10_LastWriterWins ==
  /\ lastInstall = -1 => vectorStore = NULL
  /\ lastInstall # -1 =>
       vectorStore = <<lastInstall, NChunks>> /\ ipc[lastInstall] = "true"
  /\ \A o \in Owners : ipc[o] = "true" => vectorStore # NULL
  /\ \A r \in Reqs :
       (ipc[r] = "true" /\ Rechecked(r)) =>
         /\ observed[r] = NChunks
         /\ Len(calls[r]) >= 2
         /\ calls[r][1] = "ingest" /\ calls[r][2] = "search"

C10_Witness ==
  \E r, q \in Reqs :
    /\ r # q
    /\ ipc[r] = "true" /\ ipc[q] = "true" /\ ipc[Startup] = "true"
    /\ lastInstall = r
    /\ pc[r] = "awaitSearch" /\ pc[q] = "awaitSearch"

\* C11: formatLinksAsHTML is idempotent: formatting an already formatted
\* text gives the formatted text back.
C11_Idempotent ==
  Len(html) = 2 => html[2] = html[1]

\* what C12 calls whitespace, a URL token and the anchor put in its place
Blank(t, x) == t[x] = " " \/ t[x] = "\n"

StartsUrl(t, i) ==
  \E scheme \in {HttpScheme, HttpsScheme} :
    /\ HasPrefixAt(t, i, scheme)
    /\ i + Len(scheme) <= Len(t)
    /\ ~Blank(t, i + Len(scheme))

TokenStart(t, i) ==
  /\ StartsUrl(t, i)
  /\ ~\E j \in 1..(i - 1) :
        StartsUrl(t, j) /\ \A x \in j..(i - 1) : ~Blank(t, x)

TokenEnd(t, i) ==
  CHOOSE k \in i..Len(t) :
    /\ \A x \in i..k : ~Blank(t, x)
    /\ k = Len(t) \/ Blank(t, k + 1)

InToken(t, p) ==
  \E i \in 1..p : TokenStart(t, i) /\ p <= TokenEnd(t, i)

AnchorOverhead == Len(AnchorOpen) + Len(AnchorMid) + Len(AnchorClose)

\* how much longer the output is than the input, up to position p
RECURSIVE Shift(_, _)
Shift(t, p) ==
  IF p <= 1 THEN 0
  ELSE Shift(t, p - 1)
       + (IF TokenStart(t, p - 1)
            THEN TokenEnd(t, p - 1) - (p - 1) + 1 + AnchorOverhead
            ELSE 0)

\* C12: formatLinksAsHTML returns a text without 'http://' or 'https://'
\* unchanged; in general the characters outside the matched URL tokens come
\* out unchanged and in order, and each token comes out as an anchor whose
\* href and label are that token.
C12_OnlyUrlsRewritten ==
  html # <<>> =>
    LET out == html[1]
    IN  /\ (~\E i \in 1..Len(text) :
               HasPrefixAt(text, i, HttpScheme)
                 \/ HasPrefixAt(text, i, HttpsScheme))
             => out = text
        /\ Len(out) = Len(text) + Shift(text, Len(text) + 1)
        /\ \A p \in 1..Len(text) :
             ~InToken(text, p) => out[p + Shift(text, p)] = text[p]
        /\ \A i \in 1..Len(text) :
             TokenStart(text, i) =>
               LET url == SubSeq(text, i, TokenEnd(text, i))
                   from == i + Shift(text, i)
               IN  SubSeq(out, from, from + 2 * Len(url) + AnchorOverhead - 1)
                     = AnchorOpen \o url \o AnchorMid \o url \o AnchorClose

C12_Witness ==
  /\ html # <<>>
  /\ html[1] # text
  /\ \E i \in 2..Len(text) :
       /\ TokenStart(text, i)
       /\ Blank(text, i - 1)
       /\ TokenEnd(text, i) < Len(text)

\* C13: isRelevantPDFContent called with null, undefined or an empty list
\* returns false without a completion call; a completion call is made only
\* for a list of at least one chunk, and only once.
C13_EmptyResultsNoCall ==
  cls.pc \notin {"idle", "called"} =>
    /\ cls.results \in {<<"null">>, <<"undefined">>, <<"array", 0>>} =>
         /\ cls.pc = "returned"
         /\ cls.value = FALSE
         /\ cls.completions = 0
    /\ cls.completions >= 1 =>
         /\ cls.completions = 1
         /\ cls.results[1] = "array" /\ cls.results[2] >= 1
    /\ cls.results \notin {<<"null">>, <<"undefined">>, <<"array", 0>>} =>
         cls.completions = 1

C13_Witness ==
  /\ cls.pc = "returned"
  /\ cls.results = <<"array", 0>>
  /\ cls.completions = 0

\* a reply that holds t, r, u, e in a row, in either case
HoldsTrueAnyCase(reply) ==
  \E i \in 1..(Len(reply) - 3) :
    /\ reply[i] \in {"t", "T"}
    /\ reply[i + 1] \in {"r", "R"}
    /\ reply[i + 2] \in {"u", "U"}
    /\ reply[i + 3] \in {"e", "E"}

\* C14: for a non-empty list and a relevance call that succeeded,
\* isRelevantPDFContent returns true exactly when the lower-cased reply
\* contains 'true'; 'false', 'yes', an empty reply and the like give false.
C14_TrueIffReplyHoldsTrue ==
  (cls.pc = "returned" /\ cls.outcome = "replied") =>
    /\ cls.value <=> HoldsTrueAnyCase(cls.reply)
    /\ cls.reply \in {<<>>, <<"y", "e", "s">>, <<"f", "a", "l", "s", "e">>}
         => cls.value = FALSE

C14_Witness ==
  /\ cls.pc = "returned" /\ cls.outcome = "replied"
  /\ cls.reply = <<"n", "o", "t", " ", "T", "R", "U", "E">>
  /\ cls.value = TRUE

InFlight(r) == pc[r] \notin {"idle", "done"}

AnsweredOnce(r) ==
  /\ pc[r] = "done"
  /\ Len(sent[r]) = 1
  /\ sent[r][1].status \in {400, 200, 500}

\* C15: a call that stays pending stalls only the task awaiting it: a
\* request in flight always has a step of its own to take, whatever the
\* other tasks are waiting for, and while the startup ingestion and another
\* request hang, every request whose own calls settle is answered.
C15_HungCallStallsOnlyItsRequest ==
  /\ [](\A r \in Reqs : InFlight(r) => ENABLED RequestStep(r))
  /\ \A r \in Reqs \ Hung : (pc[r] # "idle") ~> AnsweredOnce(r)

C15_Witness ==
  /\ ipc[Startup] = "load"
  /\ pc[NReq] = "awaitInit" /\ ipc[NReq] = "split"
  /\ \E r \in Reqs \ Hung :
       /\ AnsweredOnce(r)
       /\ sent[r][1].source = SourcePDF

\* C16: when every external call settles and resumed tasks are scheduled
\* fairly, every received request is eventually answered with one 400, 200
\* or 500 response.
C16_EveryRequestAnswered ==
  \A r \in Reqs : (pc[r] # "idle") ~> AnsweredOnce(r)

C16_Witness ==
  \E r, q \in Reqs :
    /\ AnsweredOnce(r) /\ sent[r][1].status = 500 /\ caught[r] = "search"
    /\ AnsweredOnce(q) /\ sent[q][1].status = 200
    /\ ipc[Startup] = "false"

\* C17: vectorStore is written only by an ingestion that went through
\* completely, with the index over every chunk; an ingestion that fails at
\* loading, splitting or an embedding call leaves vectorStore as it was, so
\* it never holds a partial index and never goes back to null.
C17_OnlyCompleteIndexInstalled ==
  /\ [](vectorStore = NULL \/ \E o \in Owners : vectorStore = <<o, NChunks>>)
  /\ [][/\ \A o \in Owners :
             (ipc[o] \in {"load", "split", "embed"} /\ ipc'[o] = "false")
               => vectorStore' = vectorStore
        /\ vectorStore' # vectorStore =>
             \E o \in Owners :
               /\ ipc[o] = "embed" /\ ipc'[o] = "true"
               /\ vectorStore' = <<o, NChunks>>
               /\ \A q \in Owners \ {o} : ipc'[q] = ipc[q]
        /\ vectorStore # NULL => vectorStore' # NULL
       ]_vars

C17_Witness ==
  /\ vectorStore # NULL
  /\ ipc[Startup] = "false"
  /\ \E r, q \in Reqs : ipc[r] = "false" /\ ipc[q] = "true"

Rank(c) ==
  CASE c = "ingest" -> 1 [] c = "search" -> 2 [] c = "relevance" -> 3
    [] c = "grounded" -> 4 [] c = "general" -> 4

AnswerCalls(r) == TimesIssued(r, "grounded") + TimesIssued(r, "general")

\* the order C18 gives: ingestion, search, relevance call, one answer call
InFixedOrder(r) ==
  /\ \A i \in 1..(Len(calls[r]) - 1) :
       Rank(calls[r][i]) < Rank(calls[r][i + 1])
  /\ Issued(r, "relevance") => Issued(r, "search")
  /\ Issued(r, "grounded") => Issued(r, "relevance")

\* C18 as stated: every answered request with a non-empty message made its
\* calls in the fixed order, without repetition, and made exactly one
\* answer-generation call.
C18_ExactlyOneAnswerCall ==
  \A r \in Reqs :
    (Answered(r) /\ ~MissingOrEmpty(message[r])) =>
      InFixedOrder(r) /\ AnswerCalls(r) = 1

\* C18 amended: the calls of a request come in the fixed order without
\* repetition, with at most one answer-generation call and at most two
\* completion calls; an answered request with a non-empty message made
\* exactly one answer-generation call unless its similarity search failed,
\* in which case it made none; a grounded answer cost exactly two
\* completion calls.
C18_FixedOrderAtMostOneAnswerCall ==
  \A r \in Reqs :
    LET answers == AnswerCalls(r)
        relevance == TimesIssued(r, "relevance")
    IN  /\ InFixedOrder(r)
        /\ answers <= 1
        /\ answers + relevance <= 2
        /\ (Answered(r) /\ ~MissingOrEmpty(message[r])) =>
             answers = IF caught[r] = "search" THEN 0 ELSE 1
        /\ Grounded(r) =>
             /\ answers + relevance = 2
             /\ relevance = 1 /\ TimesIssued(r, "grounded") = 1

C18_Witness ==
  \E r, q \in Reqs :
    /\ Answered(r) /\ caught[r] = "search" /\ AnswerCalls(r) = 0
    /\ Answered(q) /\ SourcesOf(q) = {SourcePDF}
    /\ calls[q] = <<"ingest", "search", "relevance", "grounded">>

\* C19: the retrieval path is taken exactly when the shared vectorStore is
\* non-null at the re-check, whatever became of the request's own
\* ingestion, and a request that finds vectorStore non-null on arrival
\* starts no ingestion.
C19_PathFollowsSharedStore ==
  /\ [](\A r \in Reqs :
          Rechecked(r) => (Issued(r, "search") <=> observed[r] >= 0))
  /\ [][\A r \in Reqs :
          /\ (/\ pc[r] \in {"idle", "awaitInit"}
              /\ pc'[r] \in {"awaitSearch", "awaitGeneral"})
               => (pc'[r] = "awaitSearch" <=> vectorStore # NULL)
          /\ (/\ pc[r] = "idle" /\ pc'[r] # "idle"
              /\ vectorStore # NULL)
               => (ipc'[r] = "idle" /\ pc'[r] # "awaitInit")
       ]_vars

C19_Witness ==
  \E r, q \in Reqs :
    /\ ipc[r] = "false" /\ pc[r] = "awaitSearch" /\ observed[r] = NChunks
    /\ ipc[q] = "idle" /\ pc[q] = "awaitSearch"

====
